---- MODULE Spec2Model ----
(***************************************************************************)
(* Transcript parsing and loading of claude_code_log/parser.py as a state  *)
(* machine.                                                                *)
(*                                                                         *)
(* Strings the code compares or parses character by character (the         *)
(* timestamp strings) are sequences of ASCII codes.  JSON values are       *)
(* records of one fixed shape per kind of value, carrying what the code    *)
(* inspects of them.  An outcome that is an exception in the code is a     *)
(* record field "exc" naming the exception class.                          *)
(***************************************************************************)
EXTENDS Integers, Sequences, FiniteSets, TLC

VARIABLES
    fn,         \* pure-function specification: the function under application
    phase,      \* pure-function specification: "input" or "done"
    item,       \* parse_content_item: the raw item
    block,      \* parse_content_item: its outcome
    raw,        \* parse_transcript_entry: the raw JSON object
    parsed,     \* parse_transcript_entry: its outcome
    fargs,      \* filter_messages_by_date: messages, from_date, to_date
    fres,       \* filter_messages_by_date: its outcome
    input_text, \* sanitize: the text it is first applied to
    sanitized,  \* sanitize: the results of its successive applications
    now,        \* the clock dateparser resolves relative dates against
    fs,         \* file system: file name -> [openable, lines]
    cache,      \* cache collaborator: file name -> [present, entries]
    pc,         \* position of load_transcript
    args,       \* arguments of the running load_transcript call
    line_no,    \* number of lines of the open file consumed so far
    messages,   \* load_transcript's accumulator
    outcome,    \* how the last load_transcript call ended
    events,     \* cache and file operations of the running call, in order
    dpc,        \* position of load_directory_transcripts
    dargs,      \* arguments of the running load_directory_transcripts call
    jsonl_files,\* files still to load, in glob order
    all_messages,\* load_directory_transcripts' accumulator
    loaded,     \* per-file results received by the running directory call
    doutcome    \* how the last load_directory_transcripts call ended

pureVars == <<fn, phase, item, block, raw, parsed, fargs, fres, input_text, sanitized>>
loadVars == <<fs, cache, pc, args, line_no, messages, outcome, events>>
dirVars == <<dpc, dargs, jsonl_files, all_messages, loaded, doutcome>>
vars == <<pureVars, now, loadVars, dirVars>>

(***************************************************************************)
(* Bounds of the model.                                                    *)
(***************************************************************************)
MaxItems == 1
MaxMsgs == 2
MaxLines == 2
MaxLen == 3

(***************************************************************************)
(* Generic helpers.                                                        *)
(***************************************************************************)
SeqsUpTo(S, n) == UNION {[1..k -> S] : k \in 0..n}

Range(s) == {s[i] : i \in 1..Len(s)}

(***************************************************************************)
(* Timestamp strings.  A timestamp is written D, Dh, DhZ or Dh+o: a day    *)
(* digit, a time-of-day digit (0 is 00:00:00.000000, 9 is                  *)
(* 23:59:59.999999), and a zone designator.  43 is "+", 48..57 are the     *)
(* digits, 90 is "Z", 120 is "x".                                          *)
(***************************************************************************)
Digits == 48..57

DigitVal(c) == c - 48

\* str < str of Python: lexicographic by code point, a proper prefix first.
RECURSIVE StrLess(_, _)
StrLess(a, b) ==
    IF Len(b) = 0 THEN FALSE
    ELSE IF Len(a) = 0 THEN TRUE
    ELSE IF Head(a) < Head(b) THEN TRUE
    ELSE IF Head(a) > Head(b) THEN FALSE
    ELSE StrLess(Tail(a), Tail(b))

StrLeq(a, b) == a = b \/ StrLess(a, b)

\* timestamp_str.replace("Z", "+00:00"); the offset +00:00 is written "+0".
RECURSIVE ReplaceZ(_)
ReplaceZ(s) ==
    IF Len(s) = 0 THEN <<>>
    ELSE IF Head(s) = 90 THEN <<43, 48>> \o ReplaceZ(Tail(s))
    ELSE <<Head(s)>> \o ReplaceZ(Tail(s))

NoDatetime == [ok |-> FALSE, day |-> 0, time |-> 0, aware |-> FALSE, offset |-> 0]

\* datetime.fromisoformat; ok = FALSE stands for its ValueError.
FromIsoFormat(s) ==
    IF Len(s) = 1 /\ s[1] \in Digits
    THEN [ok |-> TRUE, day |-> DigitVal(s[1]), time |-> 0, aware |-> FALSE, offset |-> 0]
    ELSE IF Len(s) = 2 /\ s[1] \in Digits /\ s[2] \in Digits
    THEN [ok |-> TRUE, day |-> DigitVal(s[1]), time |-> DigitVal(s[2]),
          aware |-> FALSE, offset |-> 0]
    ELSE IF Len(s) = 4 /\ s[1] \in Digits /\ s[2] \in Digits /\ s[3] = 43 /\ s[4] \in Digits
    THEN [ok |-> TRUE, day |-> DigitVal(s[1]), time |-> DigitVal(s[2]),
          aware |-> TRUE, offset |-> DigitVal(s[4])]
    ELSE NoDatetime

\* parse_timestamp: None (ok = FALSE) on ValueError.
ParseTimestamp(timestamp_str) == FromIsoFormat(ReplaceZ(timestamp_str))

\* message_dt.replace(tzinfo=None): the zone is dropped, the wall clock kept.
StripTz(dt) == [dt EXCEPT !.aware = FALSE, !.offset = 0]

\* datetime < datetime on naive datetimes.
DtLess(a, b) == a.day < b.day \/ (a.day = b.day /\ a.time < b.time)

(***************************************************************************)
(* Date arguments and dateparser.parse.                                    *)
(***************************************************************************)
NoDate == "None"

DateArgs == {NoDate, "", "today", "yesterday", "2 days ago", "day 3", "day 5 at 4", "garbage"}

\* "not from_date": None and the empty string are falsy.
Given(d) == d # NoDate /\ d # ""

\* from_date in ["today", "yesterday"] or "days ago" in from_date
IsRelativeDay(d) == d \in {"today", "yesterday"} \/ d \in {"2 days ago"}

\* dateparser.parse against the clock: a naive datetime (line 111), or None.
DateParse(d, clock) ==
    CASE d = "today" -> [ok |-> TRUE, day |-> clock.day, time |-> clock.time,
                         aware |-> FALSE, offset |-> 0]
      [] d = "yesterday" -> [ok |-> TRUE, day |-> clock.day - 1, time |-> clock.time,
                             aware |-> FALSE, offset |-> 0]
      [] d = "2 days ago" -> [ok |-> TRUE, day |-> clock.day - 2, time |-> clock.time,
                              aware |-> FALSE, offset |-> 0]
      [] d = "day 3" -> [ok |-> TRUE, day |-> 3, time |-> 0, aware |-> FALSE, offset |-> 0]
      [] d = "day 5 at 4" -> [ok |-> TRUE, day |-> 5, time |-> 4, aware |-> FALSE, offset |-> 0]
      [] OTHER -> NoDatetime

\* from_dt of filter_messages_by_date; ok = FALSE stands for its ValueError.
ResolveFrom(from_date, clock) ==
    LET from_dt == DateParse(from_date, clock)
    IN  IF from_dt.ok /\ IsRelativeDay(from_date) THEN [from_dt EXCEPT !.time = 0]
        ELSE from_dt

\* to_dt of filter_messages_by_date; ok = FALSE stands for its ValueError.
ResolveTo(to_date, clock) ==
    LET to_dt == DateParse(to_date, clock)
    IN  IF to_dt.ok /\ IsRelativeDay(to_date) THEN [to_dt EXCEPT !.time = 9]
        ELSE to_dt

(***************************************************************************)
(* Content items.  A raw item is a JSON value: kind is its JSON kind; for  *)
(* a mapping, type is the value of its "type" key ("absent" when it has    *)
(* none), strictOk says whether it validates against the anthropic block   *)
(* class of that type, permOk whether it validates against the class of    *)
(* that type in models.py.                                                 *)
(***************************************************************************)
ItemKinds == {"dict", "str", "list", "null", "int"}

ItemTypes == {"text", "tool_use", "thinking", "tool_result", "image", "bogus", "absent"}

KnownItemTypes == {"text", "tool_use", "thinking", "tool_result", "image"}

RawItems ==
    [kind : {"dict"}, type : ItemTypes, strictOk : BOOLEAN, permOk : BOOLEAN]
    \cup [kind : ItemKinds \ {"dict"}, type : {"absent"}, strictOk : {FALSE}, permOk : {FALSE}]

\* The items message contents and tool results are built from.
ItemSamples ==
    {[kind |-> "dict", type |-> "text", strictOk |-> TRUE, permOk |-> TRUE],
     [kind |-> "dict", type |-> "bogus", strictOk |-> FALSE, permOk |-> FALSE],
     [kind |-> "str", type |-> "absent", strictOk |-> FALSE, permOk |-> FALSE]}

\* The block class a content type names.
VariantOf(content_type) ==
    CASE content_type = "text" -> "Text"
      [] content_type = "tool_use" -> "ToolUse"
      [] content_type = "thinking" -> "Thinking"
      [] content_type = "tool_result" -> "ToolResult"
      [] content_type = "image" -> "Image"
      [] OTHER -> "None"

\* A block: its class, the schema that produced it, and its text: the raw
\* item's own field ("field"), str(item_data) ("repr"), or none.
Block(variant, schema, text, item_data) ==
    [variant |-> variant, schema |-> schema, text |-> text, of |-> item_data]

NoBlock == [variant |-> "None", schema |-> "none", text |-> "none",
            of |-> [kind |-> "null", type |-> "absent", strictOk |-> FALSE, permOk |-> FALSE]]

\* TextContent(type="text", text=str(item_data))
FallbackText(item_data) ==
    [exc |-> "none", block |-> Block("Text", "fallback", "repr", item_data)]

Raised(e) == [exc |-> e, block |-> NoBlock]

Validated(item_data, schema) ==
    [exc |-> "none",
     block |-> Block(VariantOf(item_data.type), schema,
                     IF item_data.type = "text" THEN "field" ELSE "none", item_data)]

\* The body of parse_content_item's outer try.
ParseContentItemTry(item_data) ==
    IF item_data.kind # "dict" THEN Raised("AttributeError")
    ELSE IF item_data.type \in {"text", "tool_use", "thinking"}
    THEN IF item_data.strictOk THEN Validated(item_data, "anthropic")
         ELSE IF item_data.permOk THEN Validated(item_data, "models")
         ELSE Raised("ValidationError")
    ELSE IF item_data.type \in {"tool_result", "image"}
    THEN IF item_data.permOk THEN Validated(item_data, "models")
         ELSE Raised("ValidationError")
    ELSE FallbackText(item_data)

\* parse_content_item without its outer except.
ParseContentItemNoCatch(item_data) == ParseContentItemTry(item_data)

\* parse_content_item: the outer except Exception returns the fallback text.
ParseContentItem(item_data) ==
    LET r == ParseContentItemTry(item_data)
    IN  IF r.exc # "none" THEN FallbackText(item_data) ELSE r

(***************************************************************************)
(* Message content.  A raw content value is a string, a list of items, or  *)
(* any other JSON value.                                                   *)
(***************************************************************************)
RawContents ==
    [kind : {"str", "other"}, items : {<<>>}]
    \cup [kind : {"list"}, items : SeqsUpTo(ItemSamples, MaxItems)]

\* parse_message_content: a string (kind "str", also for str(content_data))
\* or the list of the parsed items.
ParseMessageContent(content_data) ==
    IF content_data.kind = "str" THEN [kind |-> "str", blocks |-> <<>>]
    ELSE IF content_data.kind = "list"
    THEN [kind |-> "list",
          blocks |-> [i \in 1..Len(content_data.items) |->
                         ParseContentItem(content_data.items[i]).block]]
    ELSE [kind |-> "str", blocks |-> <<>>]

NoContent == [kind |-> "none", blocks |-> <<>>]

(***************************************************************************)
(* Usage.  A raw usage value: "absent" (no usage key), "null", "string",   *)
(* "list", a mapping that validates as UsageInfo ("mapping_valid") or not  *)
(* ("mapping_invalid", e.g. a non-integer input_tokens); the function also *)
(* takes a UsageInfo or an anthropic Usage instance, or an object with     *)
(* input_tokens and output_tokens attributes.                              *)
(***************************************************************************)
JsonUsages == {"absent", "null", "string", "list", "mapping_valid", "mapping_invalid"}

\* normalize_usage_info: the UsageInfo, None, or the exception it raises.
NormalizeUsageInfo(usage_data) ==
    CASE usage_data = "null" -> [exc |-> "none", usage |-> "None"]
      [] usage_data = "UsageInfo" -> [exc |-> "none", usage |-> "UsageInfo"]
      [] usage_data = "AnthropicUsage" -> [exc |-> "none", usage |-> "UsageInfo"]
      [] usage_data = "attrs_valid" -> [exc |-> "none", usage |-> "UsageInfo"]
      [] usage_data = "attrs_permissive" -> [exc |-> "none", usage |-> "UsageInfo"]
      [] usage_data = "attrs_invalid" -> [exc |-> "ValidationError", usage |-> "None"]
      [] usage_data = "mapping_valid" -> [exc |-> "none", usage |-> "UsageInfo"]
      [] usage_data = "mapping_invalid" -> [exc |-> "ValidationError", usage |-> "None"]
      [] OTHER -> [exc |-> "none", usage |-> "None"]

(***************************************************************************)
(* Raw transcript objects (one parsed JSON line that is a mapping).        *)
(*   type      value of the "type" key ("absent": no such key)             *)
(*   base      the variant's required fields other than timestamp and      *)
(*             message: all present and well typed, one missing, or one    *)
(*             wrong-typed                                                 *)
(*   timestamp kind "str" with its characters, "absent", or "int"          *)
(*   message   kind of JSON value; hasContent is the outcome of            *)
(*             `"content" in message` where that is defined; fieldsOk:     *)
(*             the message fields other than content and usage validate    *)
(*   toolUseResult  kind of JSON value, the elements of a list, and        *)
(*             whether the raw value validates against the ToolUseResult   *)
(*             union                                                       *)
(***************************************************************************)
EntryTypes == {"user", "assistant", "summary", "system", "bogus", "absent"}

RecognisedTypes == {"user", "assistant", "summary", "system"}

BaseStates == {"ok", "missing", "wrongtype"}

TimestampSamples ==
    {<<>>, <<120>>, <<49>>, <<51, 52>>, <<53, 48>>, <<53, 52, 90>>, <<53, 57>>,
     <<54, 48, 43, 49>>}

StrTimestamp(s) == [kind |-> "str", s |-> s]

RawTimestamps == {StrTimestamp(<<53, 52, 90>>), [kind |-> "absent", s |-> <<>>],
                  [kind |-> "int", s |-> <<>>]}

DefaultContent == [kind |-> "other", items |-> <<>>]

RawMessages ==
    [kind : {"absent", "null", "int"}, hasContent : {FALSE}, fieldsOk : {FALSE},
     content : {DefaultContent}, usage : {"absent"}]
    \cup [kind : {"str", "list"}, hasContent : BOOLEAN, fieldsOk : {FALSE},
          content : {DefaultContent}, usage : {"absent"}]
    \cup [kind : {"dict"}, hasContent : {FALSE}, fieldsOk : BOOLEAN,
          content : {DefaultContent}, usage : {"absent", "mapping_invalid"}]
    \cup [kind : {"dict"}, hasContent : {TRUE}, fieldsOk : BOOLEAN,
          content : RawContents, usage : JsonUsages]

NoToolUseResult == [kind |-> "absent", items |-> <<>>, shapeOk |-> FALSE]

\* The elements of a toolUseResult list: the items of a content list and a
\* mapping without a type key (a todo item).
ToolItemSamples ==
    ItemSamples \cup {[kind |-> "dict", type |-> "absent", strictOk |-> FALSE, permOk |-> FALSE]}

\* A list validates against the union only as a list of todo items or of
\* content items, so only when each of its elements is a mapping.
RawToolUseResults ==
    {NoToolUseResult}
    \cup [kind : {"null", "str"}, items : {<<>>}, shapeOk : {TRUE}]
    \cup [kind : {"dict"}, items : {<<>>}, shapeOk : BOOLEAN]
    \cup {r \in [kind : {"list"}, items : SeqsUpTo(ToolItemSamples, MaxItems + 1),
                  shapeOk : BOOLEAN] :
             r.shapeOk => \A i \in 1..Len(r.items) : r.items[i].kind = "dict"}

\* Valid messages of the two message classes.
UserMessageSample ==
    [kind |-> "dict", hasContent |-> TRUE, fieldsOk |-> TRUE,
     content |-> [kind |-> "str", items |-> <<>>], usage |-> "absent"]

AssistantMessageSample ==
    [kind |-> "dict", hasContent |-> TRUE, fieldsOk |-> TRUE,
     content |-> [kind |-> "list", items |-> <<>>], usage |-> "mapping_valid"]

Uuids == 1..2

RawObject(type, base, uuid, timestamp, message, toolUseResult) ==
    [type |-> type, base |-> base, uuid |-> uuid, timestamp |-> timestamp,
     message |-> message, toolUseResult |-> toolUseResult]

\* The raw objects parse_transcript_entry is applied to.
RawObjects ==
    {RawObject(t, b, 1, ts, m, NoToolUseResult) :
        t \in EntryTypes, b \in BaseStates, ts \in RawTimestamps, m \in RawMessages}
    \cup {RawObject(t, "ok", 1, StrTimestamp(s), UserMessageSample, NoToolUseResult) :
        t \in RecognisedTypes, s \in TimestampSamples}
    \cup {RawObject("user", "ok", 1, StrTimestamp(<<53, 52, 90>>), UserMessageSample, r) :
        r \in RawToolUseResults}

(***************************************************************************)
(* Parsed entries.                                                         *)
(***************************************************************************)
EntryClass(entry_type) ==
    CASE entry_type = "user" -> "UserTranscriptEntry"
      [] entry_type = "assistant" -> "AssistantTranscriptEntry"
      [] entry_type = "summary" -> "SummaryTranscriptEntry"
      [] entry_type = "system" -> "SystemTranscriptEntry"
      [] OTHER -> "None"

\* A toolUseResult after parsing: absent, the blocks made of a content list
\* ("blocks"), or the raw value with the elements it has as a list ("raw").
NoResult == [kind |-> "absent", blocks |-> <<>>, items |-> <<>>]

NoEntry == [variant |-> "None", uuid |-> 0, timestamp |-> <<>>, content |-> NoContent,
            usage |-> "None", toolUseResult |-> NoResult]

EntryOk(e) == [exc |-> "none", entry |-> e]

EntryRaised(e) == [exc |-> e, entry |-> NoEntry]

\* `"message" in data_copy and "content" in data_copy["message"]`, the copy of
\* the message and the assignment of its content: "skip" when the condition is
\* false, "parse" when the content is parsed, else the exception raised.
MessageAccess(message) ==
    IF message.kind = "absent" THEN "skip"
    ELSE IF message.kind \in {"null", "int"} THEN "TypeError"
    ELSE IF ~message.hasContent THEN "skip"
    ELSE IF message.kind = "str" THEN "AttributeError"
    ELSE IF message.kind = "list" THEN "TypeError"
    ELSE "parse"

\* The toolUseResult of a user entry after lines 352-367: a list whose first
\* element is a mapping with a type key becomes the blocks of its mapping
\* elements; anything else stays raw.
IsContentItemList(tool_use_result) ==
    /\ tool_use_result.kind = "list"
    /\ Len(tool_use_result.items) > 0
    /\ tool_use_result.items[1].kind = "dict"
    /\ tool_use_result.items[1].type # "absent"

\* Lines 352-367 with every element of the list parsed, mapping or not.
ParseToolUseResultAll(tool_use_result) ==
    IF IsContentItemList(tool_use_result)
    THEN [kind |-> "blocks",
          blocks |-> [i \in 1..Len(tool_use_result.items) |->
                         ParseContentItem(tool_use_result.items[i]).block],
          items |-> <<>>]
    ELSE IF tool_use_result.kind = "absent" THEN NoResult
    ELSE [kind |-> "raw", blocks |-> <<>>, items |-> tool_use_result.items]

ParseToolUseResult(tool_use_result) ==
    IF IsContentItemList(tool_use_result)
    THEN LET dicts == SelectSeq(tool_use_result.items, LAMBDA it : it.kind = "dict")
         IN  [kind |-> "blocks",
              blocks |-> [i \in 1..Len(dicts) |-> ParseContentItem(dicts[i]).block],
              items |-> <<>>]
    ELSE IF tool_use_result.kind = "absent" THEN NoResult
    ELSE [kind |-> "raw", blocks |-> <<>>, items |-> tool_use_result.items]

\* BaseTranscriptEntry's fields validate.
BaseValid(data) == data.base = "ok" /\ data.timestamp.kind = "str"

\* UserTranscriptEntry.model_validate(data_copy)
ValidateUser(data, access) ==
    IF /\ BaseValid(data)
       /\ data.message.kind = "dict" /\ data.message.fieldsOk /\ access = "parse"
       /\ (IsContentItemList(data.toolUseResult) \/ data.toolUseResult.kind = "absent"
           \/ data.toolUseResult.shapeOk)
    THEN EntryOk([variant |-> "UserTranscriptEntry", uuid |-> data.uuid,
                  timestamp |-> data.timestamp.s,
                  content |-> ParseMessageContent(data.message.content),
                  usage |-> "None",
                  toolUseResult |-> ParseToolUseResult(data.toolUseResult)])
    ELSE EntryRaised("ValidationError")

\* AssistantTranscriptEntry.model_validate(data_copy), usage as normalised.
ValidateAssistant(data, access, usage) ==
    IF /\ BaseValid(data)
       /\ data.message.kind = "dict" /\ data.message.fieldsOk /\ access = "parse"
       /\ ParseMessageContent(data.message.content).kind = "list"
    THEN EntryOk([variant |-> "AssistantTranscriptEntry", uuid |-> data.uuid,
                  timestamp |-> data.timestamp.s,
                  content |-> ParseMessageContent(data.message.content),
                  usage |-> usage,
                  toolUseResult |-> NoResult])
    ELSE EntryRaised("ValidationError")

ParseUser(data) ==
    LET access == MessageAccess(data.message)
    IN  IF access \in {"TypeError", "AttributeError"} THEN EntryRaised(access)
        ELSE ValidateUser(data, access)

\* The trial AnthropicMessage.model_validate of lines 375-382 changes nothing.
ParseAssistant(data) ==
    LET access == MessageAccess(data.message)
        norm == IF access = "parse" /\ data.message.usage # "absent"
                THEN NormalizeUsageInfo(data.message.usage)
                ELSE [exc |-> "none", usage |-> "None"]
    IN  IF access \in {"TypeError", "AttributeError"} THEN EntryRaised(access)
        ELSE IF norm.exc # "none" THEN EntryRaised(norm.exc)
        ELSE ValidateAssistant(data, access, norm.usage)

ParseSummary(data) ==
    IF data.base = "ok"
    THEN EntryOk([variant |-> "SummaryTranscriptEntry", uuid |-> data.uuid,
                  timestamp |-> <<>>, content |-> NoContent, usage |-> "None",
                  toolUseResult |-> NoResult])
    ELSE EntryRaised("ValidationError")

ParseSystem(data) ==
    IF BaseValid(data)
    THEN EntryOk([variant |-> "SystemTranscriptEntry", uuid |-> data.uuid,
                  timestamp |-> data.timestamp.s, content |-> NoContent,
                  usage |-> "None", toolUseResult |-> NoResult])
    ELSE EntryRaised("ValidationError")

\* The dispatch without its system branch.
ParseTranscriptEntryNoSystem(data) ==
    IF data.type = "user" THEN ParseUser(data)
    ELSE IF data.type = "assistant" THEN ParseAssistant(data)
    ELSE IF data.type = "summary" THEN ParseSummary(data)
    ELSE EntryRaised("UnknownType")

\* parse_transcript_entry: the entry, or the exception it raises
\* ("UnknownType" is ValueError("Unknown transcript entry type: ...")).
ParseTranscriptEntry(data) ==
    IF data.type = "user" THEN ParseUser(data)
    ELSE IF data.type = "assistant" THEN ParseAssistant(data)
    ELSE IF data.type = "summary" THEN ParseSummary(data)
    ELSE IF data.type = "system" THEN ParseSystem(data)
    ELSE EntryRaised("UnknownType")

(***************************************************************************)
(* filter_messages_by_date.                                                *)
(***************************************************************************)
\* hasattr(entry, "timestamp"): every class but SummaryTranscriptEntry.
HasTimestamp(entry) == entry.variant # "SummaryTranscriptEntry"

\* The loop body with an exclusive upper bound.
KeepMessageExclusiveTo(message, from_date, to_date, clock) ==
    IF message.variant = "SummaryTranscriptEntry" THEN TRUE
    ELSE IF Len(message.timestamp) = 0 THEN FALSE
    ELSE LET message_dt == ParseTimestamp(message.timestamp)
             naive == IF message_dt.aware THEN StripTz(message_dt) ELSE message_dt
         IN  IF ~message_dt.ok THEN FALSE
             ELSE IF Given(from_date) /\ DtLess(naive, ResolveFrom(from_date, clock))
             THEN FALSE
             ELSE IF Given(to_date) /\ ~DtLess(naive, ResolveTo(to_date, clock))
             THEN FALSE
             ELSE TRUE

\* One pass of the loop body of lines 97-121: TRUE when the message is appended.
KeepMessage(message, from_date, to_date, clock) ==
    IF message.variant = "SummaryTranscriptEntry" THEN TRUE
    ELSE IF Len(message.timestamp) = 0 THEN FALSE
    ELSE LET message_dt == ParseTimestamp(message.timestamp)
             naive == IF message_dt.aware THEN StripTz(message_dt) ELSE message_dt
         IN  IF ~message_dt.ok THEN FALSE
             ELSE IF Given(from_date) /\ DtLess(naive, ResolveFrom(from_date, clock))
             THEN FALSE
             ELSE IF Given(to_date) /\ DtLess(ResolveTo(to_date, clock), naive)
             THEN FALSE
             ELSE TRUE

RECURSIVE FilterLoop(_, _, _, _, _)
FilterLoop(msgs, filtered_messages, from_date, to_date, clock) ==
    IF Len(msgs) = 0 THEN filtered_messages
    ELSE FilterLoop(Tail(msgs),
                    IF KeepMessage(Head(msgs), from_date, to_date, clock)
                    THEN Append(filtered_messages, Head(msgs))
                    ELSE filtered_messages,
                    from_date, to_date, clock)

\* filter_messages_by_date: the filtered list, or its ValueError.
FilterMessagesByDate(msgs, from_date, to_date, clock) ==
    IF ~Given(from_date) /\ ~Given(to_date) THEN [exc |-> "none", messages |-> msgs]
    ELSE IF Given(from_date) /\ ~ResolveFrom(from_date, clock).ok
    THEN [exc |-> "ValueError", messages |-> <<>>]
    ELSE IF Given(to_date) /\ ~ResolveTo(to_date, clock).ok
    THEN [exc |-> "ValueError", messages |-> <<>>]
    ELSE [exc |-> "none", messages |-> FilterLoop(msgs, <<>>, from_date, to_date, clock)]

\* Entries with every sample timestamp, and a summary.
EntrySamples ==
    {ParseTranscriptEntry(
        RawObject(t, "ok", 1, StrTimestamp(s), UserMessageSample, NoToolUseResult)).entry :
        t \in {"user", "summary"}, s \in TimestampSamples}

(***************************************************************************)
(* The Unicode sanitizer (sanitize_unicode_for_utf8).  A text is null or a *)
(* sequence of code points; a UTF-16 pair is the one supplementary code    *)
(* point it denotes, so every code point of U+D800..U+DFFF in a text is an *)
(* unpaired surrogate.  63 is "?", 65 is "A", 233 is U+00E9, 55357 is      *)
(* U+D83D, 56832 is U+DE00, 65533 is U+FFFD, 128512 is U+1F600.            *)
(***************************************************************************)
CodePoints == {63, 65, 233, 55357, 56832, 65533, 128512}

NullText == [null |-> TRUE, chars |-> <<>>]

Text(chars) == [null |-> FALSE, chars |-> chars]

Texts == {NullText} \cup {Text(c) : c \in SeqsUpTo(CodePoints, MaxLen)}

IsSurrogate(c) == c >= 55296 /\ c <= 57343

\* The replacement of an invalid code point: U+FFFD, or "?" as the fallback.
Replacements == {65533, 63}

\* The UTF-8 bytes of one code point; none for a surrogate.
EncodeCodePoint(c) ==
    IF c < 128 THEN <<c>>
    ELSE IF c < 2048 THEN <<192 + (c \div 64), 128 + (c % 64)>>
    ELSE IF IsSurrogate(c) THEN <<>>
    ELSE IF c < 65536
    THEN <<224 + (c \div 4096), 128 + ((c \div 64) % 64), 128 + (c % 64)>>
    ELSE <<240 + (c \div 262144), 128 + ((c \div 4096) % 64), 128 + ((c \div 64) % 64),
           128 + (c % 64)>>

\* str.encode("utf-8"): the bytes, or ok = FALSE for its UnicodeEncodeError.
RECURSIVE Utf8Encode(_)
Utf8Encode(chars) ==
    IF Len(chars) = 0 THEN [ok |-> TRUE, bytes |-> <<>>]
    ELSE IF IsSurrogate(Head(chars)) THEN [ok |-> FALSE, bytes |-> <<>>]
    ELSE LET rest == Utf8Encode(Tail(chars))
         IN  [ok |-> rest.ok,
              bytes |-> IF rest.ok THEN EncodeCodePoint(Head(chars)) \o rest.bytes ELSE <<>>]

\* Every code point that does not encode, replaced.
ReplaceInvalid(chars, replacement) ==
    [i \in 1..Len(chars) |-> IF IsSurrogate(chars[i]) THEN replacement ELSE chars[i]]

\* The high surrogates replaced, the low surrogates left.
SanitizeHighOnly(t, replacement) ==
    IF t.null \/ Len(t.chars) = 0 THEN t
    ELSE IF Utf8Encode(t.chars).ok THEN t
    ELSE Text([i \in 1..Len(t.chars) |->
                 IF t.chars[i] >= 55296 /\ t.chars[i] <= 56319 THEN replacement
                 ELSE t.chars[i]])

\* Every code point that is not ASCII replaced, with no trial encoding.
SanitizeToAscii(t, replacement) ==
    IF t.null \/ Len(t.chars) = 0 THEN t
    ELSE Text([i \in 1..Len(t.chars) |->
                 IF t.chars[i] >= 128 THEN replacement ELSE t.chars[i]])

\* The first invalid code point replaced, the later ones left.
SanitizeFirstOnly(t, replacement) ==
    IF t.null \/ Len(t.chars) = 0 THEN t
    ELSE IF Utf8Encode(t.chars).ok THEN t
    ELSE LET first == CHOOSE i \in 1..Len(t.chars) :
                         /\ IsSurrogate(t.chars[i])
                         /\ \A j \in 1..(i - 1) : ~IsSurrogate(t.chars[j])
         IN  Text([t.chars EXCEPT ![first] = replacement])

\* sanitize: null and the empty text are returned as they are; so is a text
\* that encodes; otherwise each invalid code point is replaced.
Sanitize(t, replacement) ==
    IF t.null \/ Len(t.chars) = 0 THEN t
    ELSE IF Utf8Encode(t.chars).ok THEN t
    ELSE Text(ReplaceInvalid(t.chars, replacement))

(***************************************************************************)
(* Application of the pure functions: the input is drawn in the initial    *)
(* state and one step applies the function to it.                          *)
(***************************************************************************)
Clock == [day |-> 5, time |-> 4]

NoFilterArgs == [messages |-> <<>>, from_date |-> NoDate, to_date |-> NoDate]

NoFilterResult == [exc |-> "none", messages |-> <<>>]

NoRaw == RawObject("absent", "missing", 0, [kind |-> "absent", s |-> <<>>],
                   [kind |-> "absent", hasContent |-> FALSE, fieldsOk |-> FALSE,
                    content |-> DefaultContent, usage |-> "absent"],
                   NoToolUseResult)

(***************************************************************************)
(* Files.  A line of a file is blank, not JSON, JSON that is not a         *)
(* mapping, a mapping (with its raw object), or bytes that are not UTF-8.  *)
(***************************************************************************)
Line(kind, data) == [kind |-> kind, data |-> data]

ValidUser(uuid, s) ==
    Line("dict", RawObject("user", "ok", uuid, StrTimestamp(s), UserMessageSample,
                           NoToolUseResult))

SummaryLine ==
    Line("dict", RawObject("summary", "ok", 1, [kind |-> "absent", s |-> <<>>],
                           NoRaw.message, NoToolUseResult))

UndecodableLine == Line("undecodable", NoRaw)

\* Lines of the file of a single load.
SampleLines ==
    {Line("blank", NoRaw), Line("malformed", NoRaw), Line("nondict", NoRaw),
     Line("dict", RawObject("bogus", "ok", 1, StrTimestamp(<<49, 52>>), UserMessageSample,
                            NoToolUseResult)),
     Line("dict", RawObject("user", "ok", 1, StrTimestamp(<<49, 52>>),
                            [NoRaw.message EXCEPT !.kind = "null"], NoToolUseResult)),
     Line("dict", RawObject("assistant", "ok", 1, StrTimestamp(<<49, 52>>),
                            [AssistantMessageSample EXCEPT !.usage = "mapping_invalid"],
                            NoToolUseResult)),
     ValidUser(1, <<51, 52>>), ValidUser(2, <<53, 52, 90>>), SummaryLine, UndecodableLine}

\* Lines of the files of a directory.
DirSampleLines ==
    {ValidUser(1, <<51, 52>>), ValidUser(2, <<>>), ValidUser(2, <<53, 52, 90>>), SummaryLine}

FileNames == {"a.jsonl", "b.jsonl", "notes.txt"}

File(openable, lines) == [openable |-> openable, lines |-> lines]

\* directory_path.glob("*.jsonl")
Glob(dir) == {f \in DOMAIN dir : f \in {"a.jsonl", "b.jsonl"}}

GlobAll(dir) == DOMAIN dir

Perms(S) == {p \in [1..Cardinality(S) -> S] : Range(p) = S}

(***************************************************************************)
(* The cache collaborator: per file, the entries last saved.               *)
(***************************************************************************)
Absent == [present |-> FALSE, entries |-> <<>>]

EmptyCache == [f \in FileNames |-> Absent]

LoadCachedEntries(c, jsonl_path) == c[jsonl_path]

LoadCachedEntriesFiltered(c, jsonl_path, from_date, to_date, clock) ==
    IF c[jsonl_path].present
    THEN [present |-> TRUE,
          entries |-> FilterMessagesByDate(c[jsonl_path].entries, from_date, to_date,
                                           clock).messages]
    ELSE Absent

SaveCachedEntries(c, jsonl_path, entries) ==
    [c EXCEPT ![jsonl_path] = [present |-> TRUE, entries |-> entries]]

\* Lines 137-142: the lookup load_transcript makes.
CacheLookupResult(c, a, clock) ==
    IF Given(a.from_date) \/ Given(a.to_date)
    THEN LoadCachedEntriesFiltered(c, a.jsonl_path, a.from_date, a.to_date, clock)
    ELSE LoadCachedEntries(c, a.jsonl_path)

(***************************************************************************)
(* load_transcript.                                                        *)
(***************************************************************************)
LoadArgs(jsonl_path, use_cache, from_date, to_date) ==
    [jsonl_path |-> jsonl_path, use_cache |-> use_cache, from_date |-> from_date,
     to_date |-> to_date]

NoArgs == LoadArgs("a.jsonl", FALSE, NoDate, NoDate)

NoOutcome == [kind |-> "none", exc |-> "none", value |-> <<>>, hit |-> FALSE]

Returned(value, hit) == [kind |-> "returned", exc |-> "none", value |-> value, hit |-> hit]

Escaped(e) == [kind |-> "raised", exc |-> e, value |-> <<>>, hit |-> FALSE]

\* The body of the try of lines 158-175 on one non-blank line: the entry to
\* append, nothing, or the exception raised.
LineTry(line) ==
    IF line.kind = "malformed" THEN [exc |-> "JSONDecodeError", append |-> FALSE, entry |-> NoEntry]
    ELSE IF line.kind = "nondict" THEN [exc |-> "none", append |-> FALSE, entry |-> NoEntry]
    ELSE IF line.data.type \in RecognisedTypes
    THEN LET r == ParseTranscriptEntry(line.data)
         IN  [exc |-> r.exc, append |-> r.exc = "none", entry |-> r.entry]
    ELSE [exc |-> "none", append |-> FALSE, entry |-> NoEntry]

\* The except clauses of lines 176-199: JSONDecodeError, ValueError, Exception.
CaughtPerLine(e) ==
    \/ e = "JSONDecodeError"
    \/ e \in {"ValidationError", "UnknownType", "ValueError"}
    \/ e \in {"TypeError", "AttributeError"}

\* One pass of the loop of lines 155-199 on a decoded line: the accumulator
\* after it and the exception that leaves the loop, if any.
ProcessLine(msgs, line) ==
    IF line.kind = "blank" THEN [exc |-> "none", messages |-> msgs]
    ELSE LET r == LineTry(line)
         IN  IF r.exc # "none" /\ ~CaughtPerLine(r.exc)
             THEN [exc |-> r.exc, messages |-> msgs]
             ELSE [exc |-> "none",
                   messages |-> IF r.append THEN Append(msgs, r.entry) ELSE msgs]

Idle == pc \in {"idle", "done"} /\ dpc \in {"idle", "done"}

\* load_transcript going to the file without the lookup.
StartLoadNoLookup(a) ==
    /\ args' = a
    /\ pc' = "open"
    /\ line_no' = 0
    /\ messages' = <<>>
    /\ outcome' = outcome
    /\ events' = <<>>

\* The state in which load_transcript starts; the caller still holds what the
\* call before it returned.
StartLoad(a) ==
    /\ args' = a
    /\ pc' = IF a.use_cache THEN "lookup" ELSE "open"
    /\ line_no' = 0
    /\ messages' = <<>>
    /\ outcome' = outcome
    /\ events' = <<>>

\* A caller calls load_transcript.
CallLoad ==
    /\ Idle
    /\ \E use_cache \in BOOLEAN, from_date \in {NoDate, "today"}, to_date \in {NoDate, "today"} :
          StartLoad(LoadArgs("a.jsonl", use_cache, from_date, to_date))
    /\ UNCHANGED <<pureVars, now, fs, cache, dirVars>>

\* Lines 135-147.
CacheLookup ==
    /\ pc = "lookup"
    /\ LET cached_entries == CacheLookupResult(cache, args, now)
       IN  /\ events' = Append(events, "lookup")
           /\ IF cached_entries.present
              THEN /\ outcome' = Returned(cached_entries.entries, TRUE)
                   /\ pc' = "done"
              ELSE /\ outcome' = outcome
                   /\ pc' = "open"
    /\ UNCHANGED <<pureVars, now, fs, cache, args, line_no, messages, dirVars>>

\* Line 152: open() raises OSError for a file that cannot be opened.
OpenFile ==
    /\ pc = "open"
    /\ IF fs[args.jsonl_path].openable
       THEN /\ pc' = "read"
            /\ events' = Append(events, "open")
            /\ outcome' = outcome
       ELSE /\ pc' = "done"
            /\ events' = events
            /\ outcome' = Escaped("OSError")
    /\ UNCHANGED <<pureVars, now, fs, cache, args, line_no, messages, dirVars>>

\* Lines 155-199, one line: the iteration raises UnicodeDecodeError on bytes
\* that are not UTF-8, outside the try (the accumulator is lost with it).
ReadLine ==
    /\ pc = "read"
    /\ line_no < Len(fs[args.jsonl_path].lines)
    /\ LET line == fs[args.jsonl_path].lines[line_no + 1]
           r == ProcessLine(messages, line)
       IN  IF line.kind = "undecodable"
           THEN /\ pc' = "done"
                /\ outcome' = Escaped("UnicodeDecodeError")
                /\ UNCHANGED <<line_no, messages, events>>
           ELSE IF r.exc # "none"
           THEN /\ pc' = "done"
                /\ outcome' = Escaped(r.exc)
                /\ UNCHANGED <<line_no, messages, events>>
           ELSE /\ pc' = "read"
                /\ line_no' = line_no + 1
                /\ messages' = r.messages
                /\ events' = Append(events, "line")
                /\ outcome' = outcome
    /\ UNCHANGED <<pureVars, now, fs, cache, args, dirVars>>

\* Line 200: the end of the file closes it.
EndOfFile ==
    /\ pc = "read"
    /\ line_no = Len(fs[args.jsonl_path].lines)
    /\ events' = Append(events, "close")
    /\ pc' = IF args.use_cache THEN "save" ELSE "return"
    /\ UNCHANGED <<pureVars, now, fs, cache, args, line_no, messages, outcome, dirVars>>

\* The save handed the entries inside the date bounds of the call.
SaveCacheFiltered ==
    /\ pc = "save"
    /\ cache' = SaveCachedEntries(cache, args.jsonl_path,
                                  FilterMessagesByDate(messages, args.from_date, args.to_date,
                                                       now).messages)
    /\ events' = Append(events, "save")
    /\ pc' = "return"
    /\ UNCHANGED <<pureVars, now, fs, args, line_no, messages, outcome, dirVars>>

\* Lines 202-203.
SaveCache ==
    /\ pc = "save"
    /\ cache' = SaveCachedEntries(cache, args.jsonl_path, messages)
    /\ events' = Append(events, "save")
    /\ pc' = "return"
    /\ UNCHANGED <<pureVars, now, fs, args, line_no, messages, outcome, dirVars>>

\* Line 205.
Return ==
    /\ pc = "return"
    /\ outcome' = Returned(messages, FALSE)
    /\ pc' = "done"
    /\ UNCHANGED <<pureVars, now, fs, cache, args, line_no, messages, events, dirVars>>

(***************************************************************************)
(* load_directory_transcripts.                                             *)
(***************************************************************************)
\* get_timestamp of lines 228-231.
GetTimestamp(entry) == IF HasTimestamp(entry) THEN entry.timestamp ELSE <<>>

\* list.sort(key=...) is stable: an element goes after every element whose
\* key is not greater.
RECURSIVE InsertByKey(_, _)
InsertByKey(sorted, e) ==
    IF Len(sorted) = 0 THEN <<e>>
    ELSE IF StrLess(GetTimestamp(e), GetTimestamp(Head(sorted)))
    THEN <<e>> \o sorted
    ELSE <<Head(sorted)>> \o InsertByKey(Tail(sorted), e)

RECURSIVE SortFrom(_, _)
SortFrom(sorted, rest) ==
    IF Len(rest) = 0 THEN sorted
    ELSE SortFrom(InsertByKey(sorted, Head(rest)), Tail(rest))

\* The list left in concatenation order.
Unsorted(msgs) == msgs

\* all_messages.sort(key=get_timestamp)
SortByTimestamp(msgs) == SortFrom(<<>>, msgs)

NoDirArgs == [use_cache |-> FALSE, from_date |-> NoDate, to_date |-> NoDate]

\* A caller calls load_directory_transcripts: lines 216-219, the glob in the
\* order the file system yields.  The date arguments are only handed on to
\* load_transcript, whose own calls draw them.
CallLoadDirectory ==
    /\ Idle
    /\ \E use_cache \in BOOLEAN, order \in Perms(Glob(fs)) :
          /\ dargs' = [use_cache |-> use_cache, from_date |-> NoDate, to_date |-> NoDate]
          /\ jsonl_files' = order
    /\ all_messages' = <<>>
    /\ loaded' = <<>>
    /\ doutcome' = NoOutcome
    /\ dpc' = "loop"
    /\ UNCHANGED <<pureVars, now, loadVars>>

\* Lines 221-224: the call of load_transcript on the next file.
DirLoadFile ==
    /\ dpc = "loop"
    /\ Len(jsonl_files) > 0
    /\ StartLoad(LoadArgs(Head(jsonl_files), dargs.use_cache, dargs.from_date,
                          dargs.to_date))
    /\ jsonl_files' = Tail(jsonl_files)
    /\ dpc' = "loading"
    /\ UNCHANGED <<pureVars, now, fs, cache, dargs, all_messages, loaded, doutcome>>

\* Line 225, or the exception of load_transcript leaving the function.
DirExtend ==
    /\ dpc = "loading"
    /\ pc = "done"
    /\ IF outcome.kind = "raised"
       THEN /\ doutcome' = Escaped(outcome.exc)
            /\ dpc' = "done"
            /\ UNCHANGED <<all_messages, loaded>>
       ELSE /\ all_messages' = all_messages \o outcome.value
            /\ loaded' = Append(loaded, [jsonl_path |-> args.jsonl_path,
                                          messages |-> outcome.value])
            /\ dpc' = "loop"
            /\ doutcome' = doutcome
    /\ UNCHANGED <<pureVars, now, loadVars, dargs, jsonl_files>>

\* Lines 233-234.
DirSortReturn ==
    /\ dpc = "loop"
    /\ Len(jsonl_files) = 0
    /\ doutcome' = Returned(SortByTimestamp(all_messages), FALSE)
    /\ dpc' = "done"
    /\ UNCHANGED <<pureVars, now, loadVars, dargs, jsonl_files, all_messages, loaded>>

(***************************************************************************)
(* Specifications.                                                         *)
(***************************************************************************)
PureIdle ==
    /\ fn = "none" /\ phase = "done"
    /\ item = NoBlock.of /\ block = Raised("none")
    /\ raw = NoRaw /\ parsed = EntryRaised("none")
    /\ fargs = NoFilterArgs /\ fres = NoFilterResult
    /\ input_text = NullText /\ sanitized = <<>>

LoadIdle ==
    /\ cache = EmptyCache
    /\ pc = "idle" /\ args = NoArgs /\ line_no = 0 /\ messages = <<>>
    /\ outcome = NoOutcome /\ events = <<>>

DirIdle ==
    /\ dpc = "idle" /\ dargs = NoDirArgs /\ jsonl_files = <<>>
    /\ all_messages = <<>> /\ loaded = <<>> /\ doutcome = NoOutcome

NotesFile == File(TRUE, <<ValidUser(1, <<49>>)>>)

\* Single load: the file a.jsonl holds any lines, or cannot be opened.
Init ==
    /\ PureIdle
    /\ now = Clock
    /\ \E a \in {File(TRUE, l) : l \in SeqsUpTo(SampleLines, MaxLines)} \cup {File(FALSE, <<>>)} :
          fs = [f \in FileNames |-> IF f = "a.jsonl" THEN a
                                    ELSE IF f = "b.jsonl" THEN File(TRUE, <<>>)
                                    ELSE NotesFile]
    /\ LoadIdle
    /\ DirIdle

Next ==
    \/ CallLoad
    \/ CacheLookup
    \/ OpenFile
    \/ ReadLine
    \/ EndOfFile
    \/ SaveCache
    \/ Return

Spec == Init /\ [][Next]_vars

\* What a file of a directory holds.
DirFiles ==
    {File(TRUE, l) : l \in SeqsUpTo(DirSampleLines, MaxLines)}
    \cup {File(TRUE, <<UndecodableLine>>), File(FALSE, <<>>)}

InitDir ==
    /\ PureIdle
    /\ now = Clock
    /\ \E a \in DirFiles, b \in DirFiles :
          fs = [f \in FileNames |-> IF f = "a.jsonl" THEN a
                                    ELSE IF f = "b.jsonl" THEN b
                                    ELSE NotesFile]
    /\ LoadIdle
    /\ DirIdle

NextDir ==
    \/ CallLoadDirectory
    \/ DirLoadFile
    \/ DirExtend
    \/ DirSortReturn
    \/ CacheLookup
    \/ OpenFile
    \/ ReadLine
    \/ EndOfFile
    \/ SaveCache
    \/ Return

SpecDir == InitDir /\ [][NextDir]_vars

\* A caller calls load_transcript again on the same file with the same date
\* arguments, with or without the cache.
CallLoadAgain ==
    /\ Idle
    /\ \E use_cache \in BOOLEAN : StartLoad([args EXCEPT !.use_cache = use_cache])
    /\ UNCHANGED <<pureVars, now, fs, cache, dirVars>>

\* Repeated loads of one unchanged file with one pair of date arguments.
InitRepeat ==
    /\ PureIdle
    /\ now = Clock
    /\ \E a \in {File(TRUE, l) : l \in SeqsUpTo(SampleLines, MaxLines)} \cup {File(FALSE, <<>>)} :
          fs = [f \in FileNames |-> IF f = "a.jsonl" THEN a
                                    ELSE IF f = "b.jsonl" THEN File(TRUE, <<>>)
                                    ELSE NotesFile]
    /\ cache = EmptyCache
    /\ pc = "idle" /\ line_no = 0 /\ messages = <<>>
    /\ outcome = NoOutcome /\ events = <<>>
    /\ \E from_date \in {NoDate, "today"}, to_date \in {NoDate, "today"} :
          args = LoadArgs("a.jsonl", FALSE, from_date, to_date)
    /\ DirIdle

NextRepeat ==
    \/ CallLoadAgain
    \/ CacheLookup
    \/ OpenFile
    \/ ReadLine
    \/ EndOfFile
    \/ SaveCache
    \/ Return

SpecRepeat == InitRepeat /\ [][NextRepeat]_vars

ApplyParseContentItem ==
    /\ fn = "parse_content_item" /\ phase = "input"
    /\ block' = ParseContentItem(item)
    /\ phase' = "done"
    /\ UNCHANGED <<fn, item, raw, parsed, fargs, fres, input_text, sanitized, now, loadVars, dirVars>>

ApplyParseTranscriptEntry ==
    /\ fn = "parse_transcript_entry" /\ phase = "input"
    /\ parsed' = ParseTranscriptEntry(raw)
    /\ phase' = "done"
    /\ UNCHANGED <<fn, item, block, raw, fargs, fres, input_text, sanitized, now, loadVars, dirVars>>

ApplyFilterMessagesByDate ==
    /\ fn = "filter_messages_by_date" /\ phase = "input"
    /\ fres' = FilterMessagesByDate(fargs.messages, fargs.from_date, fargs.to_date, now)
    /\ phase' = "done"
    /\ UNCHANGED <<fn, item, block, raw, parsed, fargs, input_text, sanitized, now, loadVars, dirVars>>

\* sanitize applied to the text, then to each result in turn.
ApplySanitize ==
    /\ fn = "sanitize"
    /\ Len(sanitized) < 2
    /\ \E replacement \in Replacements :
          sanitized' = Append(sanitized,
                              Sanitize(IF Len(sanitized) = 0 THEN input_text
                                       ELSE sanitized[Len(sanitized)], replacement))
    /\ phase' = "done"
    /\ UNCHANGED <<fn, item, block, raw, parsed, fargs, fres, input_text, now, loadVars, dirVars>>

InitPure ==
    /\ phase = "input"
    /\ block = Raised("none") /\ parsed = EntryRaised("none") /\ fres = NoFilterResult
    /\ sanitized = <<>>
    /\ \/ fn = "parse_content_item" /\ item \in RawItems /\ raw = NoRaw
          /\ fargs = NoFilterArgs /\ input_text = NullText
       \/ fn = "parse_transcript_entry" /\ item = NoBlock.of /\ raw \in RawObjects
          /\ fargs = NoFilterArgs /\ input_text = NullText
       \/ fn = "filter_messages_by_date" /\ item = NoBlock.of /\ raw = NoRaw
          /\ fargs \in [messages : SeqsUpTo(EntrySamples, MaxMsgs), from_date : DateArgs,
                        to_date : DateArgs]
          /\ input_text = NullText
       \/ fn = "sanitize" /\ item = NoBlock.of /\ raw = NoRaw /\ fargs = NoFilterArgs
          /\ input_text \in Texts
    /\ now = Clock
    /\ fs = [f \in FileNames |-> File(TRUE, <<>>)]
    /\ LoadIdle
    /\ DirIdle

NextPure ==
    \/ ApplyParseContentItem
    \/ ApplyParseTranscriptEntry
    \/ ApplyFilterMessagesByDate
    \/ ApplySanitize

SpecPure == InitPure /\ [][NextPure]_vars

(***************************************************************************)
(* Properties.                                                             *)
(***************************************************************************)
\* A line that yields an entry: a mapping of a recognised type that parses.
ValidLine(line) ==
    /\ line.kind = "dict"
    /\ line.data.type \in RecognisedTypes
    /\ ParseTranscriptEntry(line.data).exc = "none"

\* The entries of the valid lines, in file order.
ExpectedEntries(lines) ==
    LET valid == SelectSeq(lines, ValidLine)
    IN  [i \in 1..Len(valid) |-> ParseTranscriptEntry(valid[i].data).entry]

LoadDone == pc = "done" /\ dpc = "idle"

\* C1: a load without a cache of a file that can be opened returns exactly
\* the entries of the valid lines, in file order, and raises nothing.
C1_LoadReturnsValidEntries ==
    LoadDone /\ ~args.use_cache /\ fs[args.jsonl_path].openable
        => /\ outcome.kind = "returned"
           /\ outcome.value = ExpectedEntries(fs[args.jsonl_path].lines)

\* The timestamp of an entry lies inside the resolved bounds that are given.
InsideBounds(entry, from_date, to_date, clock) ==
    LET t == StripTz(ParseTimestamp(entry.timestamp))
    IN  /\ t.ok
        /\ Given(from_date) => ~DtLess(t, ResolveFrom(from_date, clock))
        /\ Given(to_date) => ~DtLess(ResolveTo(to_date, clock), t)

\* C2: a load called with a from or to date returns no entry that carries a
\* timestamp outside the resolved bounds.
C2_ReturnedEntriesInRange ==
    LoadDone /\ outcome.kind = "returned" /\ (Given(args.from_date) \/ Given(args.to_date))
        => \A i \in 1..Len(outcome.value) :
              HasTimestamp(outcome.value[i])
                  => InsideBounds(outcome.value[i], args.from_date, args.to_date, now)

RECURSIVE Concat(_)
Concat(seqs) == IF Len(seqs) = 0 THEN <<>> ELSE Head(seqs).messages \o Concat(Tail(seqs))

Count(s, e) == Cardinality({i \in 1..Len(s) : s[i] = e})

IsPermutation(s, t) ==
    /\ Len(s) = Len(t)
    /\ \A e \in Range(s) \cup Range(t) : Count(s, e) = Count(t, e)

DirReturned == dpc = "done" /\ doutcome.kind = "returned"

\* The result holds the per-file results of exactly the .jsonl files, in
\* non-decreasing order of the timestamp key.
SortedPermutation ==
    /\ {loaded[i].jsonl_path : i \in 1..Len(loaded)} = {"a.jsonl", "b.jsonl"}
    /\ Len(loaded) = 2
    /\ IsPermutation(doutcome.value, Concat(loaded))
    /\ \A i, j \in 1..Len(doutcome.value) :
          i < j => StrLeq(GetTimestamp(doutcome.value[i]), GetTimestamp(doutcome.value[j]))

\* C3 (as amended): load_directory returns a permutation of the concatenated
\* per-file results of the .jsonl files, non-decreasing by timestamp string,
\* a summary having the empty key and so preceding every entry whose
\* timestamp string is not empty.
C3_DirectorySortedPermutation ==
    DirReturned
        => /\ SortedPermutation
           /\ \A i, j \in 1..Len(doutcome.value) :
                 /\ ~HasTimestamp(doutcome.value[i])
                 /\ HasTimestamp(doutcome.value[j])
                 /\ Len(doutcome.value[j].timestamp) > 0
                 => i < j

\* C3 (as stated): ... a summary precedes every entry that has a timestamp.
C3_SummaryPrecedesEveryTimestamped ==
    DirReturned
        => /\ SortedPermutation
           /\ \A i, j \in 1..Len(doutcome.value) :
                 ~HasTimestamp(doutcome.value[i]) /\ HasTimestamp(doutcome.value[j])
                 => i < j

\* A directory run whose sort moved a summary of the later file ahead of a
\* timestamped entry of the earlier one.
C3_Witness ==
    /\ DirReturned
    /\ doutcome.value # all_messages
    /\ \E i, j \in 1..Len(doutcome.value) :
          /\ i < j
          /\ ~HasTimestamp(doutcome.value[i])
          /\ Len(GetTimestamp(doutcome.value[j])) > 0

PureDone(f) == fn = f /\ phase = "done"

\* The item is a mapping of a known type whose fields validate under a
\* schema the code tries for that type.
ItemValidates(it) ==
    /\ it.kind = "dict"
    /\ \/ it.type \in {"text", "tool_use", "thinking"} /\ (it.strictOk \/ it.permOk)
       \/ it.type \in {"tool_result", "image"} /\ it.permOk

\* C4: parse_content_item never raises; a known type that validates yields
\* the block of that type, anything else a Text block holding the string
\* representation of the raw item.
C4_ParseContentItemNeverRaises ==
    PureDone("parse_content_item")
        => /\ block.exc = "none"
           /\ ItemValidates(item)
                 => /\ block.block.variant = VariantOf(item.type)
                    /\ block.block.schema # "fallback"
                    /\ block.block.of = item
           /\ ~ItemValidates(item)
                 => block.block = [variant |-> "Text", schema |-> "fallback",
                                   text |-> "repr", of |-> item]

\* A tool_use mapping that fails both validations came back as fallback text.
C4_Witness ==
    /\ PureDone("parse_content_item")
    /\ item.kind = "dict" /\ item.type = "tool_use" /\ ~item.strictOk /\ ~item.permOk
    /\ block.block.variant = "Text" /\ block.block.text = "repr"

\* The raw object is an assistant entry that is valid but for its usage.
AssistantValidButUsage(data) ==
    /\ data.type = "assistant" /\ data.base = "ok" /\ data.timestamp.kind = "str"
    /\ data.message.kind = "dict" /\ data.message.fieldsOk /\ data.message.hasContent
    /\ data.message.content.kind = "list"

\* C5: an otherwise valid assistant entry whose usage cannot be converted
\* parses to an AssistantTranscriptEntry with usage None.
C5_UnconvertibleUsageYieldsNull ==
    /\ PureDone("parse_transcript_entry")
    /\ AssistantValidButUsage(raw)
    /\ raw.message.usage \in {"string", "list", "mapping_invalid"}
    => /\ parsed.exc = "none"
       /\ parsed.entry.variant = "AssistantTranscriptEntry"
       /\ parsed.entry.usage = "None"

\* The file can be opened and read to its end.
Loadable(file) ==
    file.openable /\ \A i \in 1..Len(file.lines) : file.lines[i].kind # "undecodable"

\* C6: a directory run ends by returning, whatever the files hold, and what
\* it returns holds the entries of every file that can be loaded.
C6_DirectoryRunSurvivesBadFile ==
    dpc = "done"
        => /\ doutcome.kind = "returned"
           /\ \A f \in {"a.jsonl", "b.jsonl"} :
                 Loadable(fs[f])
                     => \A e \in Range(ExpectedEntries(fs[f].lines)) :
                           e \in Range(doutcome.value)

\* The cache and file operations of a load that missed the cache.
MissEvents(n) == <<"lookup", "open">> \o [i \in 1..n |-> "line"] \o <<"close", "save">>

\* C7: with a cache, the lookup comes before anything else; a hit returns
\* the sequence looked up, with no file opened and nothing saved; a miss
\* reads every line, then saves once, then returns.
C7_CacheConsultedBeforeParsing ==
    args.use_cache /\ pc # "idle"
        => /\ Len(events) > 0 => events[1] = "lookup"
           /\ \A i \in 1..Len(events) :
                 events[i] = "save" => i = Len(events) /\ pc \in {"return", "done"}
           /\ pc = "done" /\ outcome.kind = "returned" /\ outcome.hit
                 => /\ events = <<"lookup">>
                    /\ outcome.value = CacheLookupResult(cache, args, now).entries
           /\ pc = "done" /\ outcome.kind = "returned" /\ ~outcome.hit
                 => /\ events = MissEvents(Len(fs[args.jsonl_path].lines))
                    /\ cache[args.jsonl_path] = [present |-> TRUE, entries |-> outcome.value]

\* A load served from the cache, after the load that filled it.
C7_Witness ==
    /\ LoadDone /\ args.use_cache
    /\ outcome.kind = "returned" /\ outcome.hit
    /\ Len(outcome.value) > 0
    /\ cache[args.jsonl_path].entries = ExpectedEntries(fs[args.jsonl_path].lines)

\* The entry is kept by a filter with the bounds given.
Kept(entry, from_date, to_date, clock) ==
    \/ ~HasTimestamp(entry)
    \/ /\ Len(entry.timestamp) > 0
       /\ InsideBounds(entry, from_date, to_date, clock)

\* C8: filter_messages_by_date returns its input when no bound is given,
\* and otherwise the subsequence, in order, of the summaries and of the
\* entries whose timestamp parses and lies within the bounds given, both
\* bounds included (the bounds being dates the date parser resolves).
C8_FilterKeepsExactlyInRange ==
    PureDone("filter_messages_by_date") /\ fres.exc = "none"
        => IF ~Given(fargs.from_date) /\ ~Given(fargs.to_date)
           THEN fres.messages = fargs.messages
           ELSE fres.messages =
                   SelectSeq(fargs.messages,
                             LAMBDA e : Kept(e, fargs.from_date, fargs.to_date, now))

\* A filter that kept an entry lying exactly on the upper bound and dropped
\* another entry.
C8_Witness ==
    /\ PureDone("filter_messages_by_date") /\ fres.exc = "none"
    /\ Given(fargs.from_date) /\ Given(fargs.to_date)
    /\ Len(fres.messages) = 1 /\ Len(fargs.messages) = 2
    /\ HasTimestamp(fres.messages[1])
    /\ StripTz(ParseTimestamp(fres.messages[1].timestamp)) = ResolveTo(fargs.to_date, now)

\* C9: parse_transcript_entry raises the unknown-type error exactly when
\* the type is absent or not user, assistant, summary or system, and an
\* entry it returns is of the class its type names.
C9_UnknownTypeExactlyWhenUnrecognised ==
    PureDone("parse_transcript_entry")
        => /\ parsed.exc = "UnknownType"
                 <=> raw.type \notin {"user", "assistant", "summary", "system"}
           /\ parsed.exc = "none"
                 => \/ raw.type = "user" /\ parsed.entry.variant = "UserTranscriptEntry"
                    \/ raw.type = "assistant"
                          /\ parsed.entry.variant = "AssistantTranscriptEntry"
                    \/ raw.type = "summary" /\ parsed.entry.variant = "SummaryTranscriptEntry"
                    \/ raw.type = "system" /\ parsed.entry.variant = "SystemTranscriptEntry"

\* An object without a type key was refused with the unknown-type error.
C9_Witness ==
    /\ PureDone("parse_transcript_entry")
    /\ raw.type = "absent"
    /\ parsed.exc = "UnknownType"

\* A required field of the variant is missing or wrong-typed.
RequiredFieldBad(data) ==
    \/ data.base # "ok"
    \/ data.type # "summary" /\ data.timestamp.kind # "str"
    \/ /\ data.type \in {"user", "assistant"}
       /\ \/ data.message.kind # "dict"
          \/ ~data.message.fieldsOk
          \/ ~data.message.hasContent
          \/ data.type = "assistant" /\ data.message.content.kind # "list"
    \/ data.type = "user" /\ data.toolUseResult.kind \in {"dict", "list"}
          /\ ~data.toolUseResult.shapeOk /\ ~IsContentItemList(data.toolUseResult)

\* C10: for a recognised type, parse_transcript_entry fails only when a
\* required field is missing or wrong-typed, and then with a validation
\* error; so it does for a message that is null, a string or a list.
C10_FailuresAreValidationErrors ==
    PureDone("parse_transcript_entry") /\ raw.type \in RecognisedTypes
        => /\ parsed.exc # "none" => parsed.exc = "ValidationError"
           /\ raw.type \in {"user", "assistant"} /\ raw.message.kind \in {"null", "str", "list"}
                 => parsed.exc = "ValidationError"

\* The text holds no surrogate code point.
Clean(t) == \A i \in 1..Len(t.chars) : ~IsSurrogate(t.chars[i])

\* C11: whatever the text, with surrogate code points in any number and
\* position, every result of sanitize holds no surrogate code point and
\* encodes as UTF-8.
C11_SanitizedEncodes ==
    fn = "sanitize"
        => \A k \in 1..Len(sanitized) :
              /\ Clean(sanitized[k])
              /\ Utf8Encode(sanitized[k].chars).ok

\* A text with a high, then a low surrogate apart, sanitized to a text of
\* the same length that encodes.
C11_Witness ==
    /\ fn = "sanitize" /\ Len(sanitized) = 1
    /\ Len(input_text.chars) = 3
    /\ input_text.chars[1] = 55357 /\ input_text.chars[2] = 65 /\ input_text.chars[3] = 56832
    /\ Len(sanitized[1].chars) = 3
    /\ Utf8Encode(sanitized[1].chars).ok

\* C12: sanitize returns null, the empty text and every text without a
\* surrogate code point as it is.
C12_SanitizeIdentityOnClean ==
    fn = "sanitize" /\ Len(sanitized) >= 1
        /\ (input_text.null \/ Len(input_text.chars) = 0 \/ Clean(input_text))
        => sanitized[1] = input_text

\* A text with a non-ASCII character and an emoji came back unchanged.
C12_Witness ==
    /\ fn = "sanitize" /\ Len(sanitized) >= 1
    /\ input_text = Text(<<65, 233, 128512>>)
    /\ sanitized[1] = input_text

\* C13: sanitize applied to its own result returns that result, whichever
\* replacement either application uses.
C13_SanitizeIdempotent ==
    fn = "sanitize" /\ Len(sanitized) = 2 => sanitized[2] = sanitized[1]

\* A text with two surrogates, sanitized with "?", then sanitized again.
C13_Witness ==
    /\ fn = "sanitize" /\ Len(sanitized) = 2
    /\ input_text = Text(<<55357, 56832, 65>>)
    /\ sanitized[1] = Text(<<63, 63, 65>>)
    /\ sanitized[2] = sanitized[1]

\* parse_transcript_entry returned a user entry whose raw toolUseResult is a list.
UserWithListResult ==
    /\ PureDone("parse_transcript_entry")
    /\ raw.type = "user" /\ parsed.exc = "none"
    /\ raw.toolUseResult.kind = "list"

\* The list is not empty and its first element is a mapping with a type key.
FirstIsTypedMapping(items) ==
    /\ Len(items) > 0
    /\ items[1].kind = "dict"
    /\ items[1].type # "absent"

\* The list is left as the raw data.
LeftRaw(result, items) ==
    /\ result.kind = "raw"
    /\ result.items = items
    /\ result.blocks = <<>>

\* The blocks are those of the elements, one each, in order.
BlocksOf(result, items) ==
    /\ result.kind = "blocks"
    /\ Len(result.blocks) = Len(items)
    /\ \A i \in 1..Len(items) : result.blocks[i].of = items[i]

\* C14 as stated: a toolUseResult list whose first element is a mapping
\* with a type key becomes one content block per element, in order, none
\* dropped; any other list is left as the raw data.
C14_EveryElementBecomesABlock ==
    UserWithListResult
        => IF FirstIsTypedMapping(raw.toolUseResult.items)
           THEN BlocksOf(parsed.entry.toolUseResult, raw.toolUseResult.items)
           ELSE LeftRaw(parsed.entry.toolUseResult, raw.toolUseResult.items)

\* C14: a toolUseResult list whose first element is a mapping with a type
\* key becomes one content block per element that is a mapping, in order,
\* the elements that are not mappings being dropped; any other list is left
\* as the raw data.
C14_MappingElementsBecomeBlocks ==
    UserWithListResult
        => IF FirstIsTypedMapping(raw.toolUseResult.items)
           THEN BlocksOf(parsed.entry.toolUseResult,
                         SelectSeq(raw.toolUseResult.items, LAMBDA it : it.kind = "dict"))
           ELSE LeftRaw(parsed.entry.toolUseResult, raw.toolUseResult.items)

\* A list of a typed mapping and a string, parsed to the one block of the
\* mapping.
C14_Witness ==
    /\ UserWithListResult
    /\ Len(raw.toolUseResult.items) = 2
    /\ FirstIsTypedMapping(raw.toolUseResult.items)
    /\ raw.toolUseResult.items[2].kind = "str"
    /\ Len(parsed.entry.toolUseResult.blocks) = 1
    /\ parsed.entry.toolUseResult.blocks[1].of = raw.toolUseResult.items[1]

\* The step on which a call of load_transcript returns, the call before it
\* having returned too.
ReturnsAfterReturn ==
    /\ pc # "done" /\ pc' = "done"
    /\ outcome.kind = "returned"
    /\ outcome'.kind = "returned"

\* C15: of the loads of one unchanged file with one pair of date
\* arguments, each returns the sequence the load before it returned, be it
\* the load that missed and filled the cache, a load that hit it or a load
\* without a cache.
C15_CacheTransparent ==
    [][ReturnsAfterReturn => outcome'.value = outcome.value]_vars

\* C16: whatever loads were made, with or without date bounds, the entries
\* saved for a file are all the entries parsed from it, saved by a call that
\* read the file and was served nothing from the cache; so a load without
\* bounds served from the cache returns what a fresh parse returns.
C16_SavedEntriesAreComplete ==
    /\ \A f \in FileNames :
          cache[f].present => cache[f].entries = ExpectedEntries(fs[f].lines)
    /\ \A i \in 1..Len(events) :
          events[i] = "save"
              => /\ ~outcome.hit \/ pc # "done"
                 /\ events = MissEvents(Len(fs[args.jsonl_path].lines))
    /\ LoadDone /\ outcome.kind = "returned" /\ outcome.hit
          /\ ~Given(args.from_date) /\ ~Given(args.to_date)
          => outcome.value = ExpectedEntries(fs[args.jsonl_path].lines)

\* A load bounded to today has saved an entry of two days before.
C16_Witness ==
    /\ pc = "return" /\ args.use_cache
    /\ args.from_date = "today" /\ args.to_date = "today"
    /\ Len(events) > 0 /\ events[Len(events)] = "save"
    /\ \E i \in 1..Len(cache[args.jsonl_path].entries) :
          LET e == cache[args.jsonl_path].entries[i]
          IN  HasTimestamp(e) /\ ~InsideBounds(e, args.from_date, args.to_date, now)
====
